---- MODULE Spec2Model ----
(***************************************************************************)
(* Model of tecs::World (src/tecs/tecs/src/ecs.cpp): entity allocation and *)
(* recycling, component ownership, the component index and its views; of   *)
(* the component type ids (ComponentBase<T>::ID); and of the               *)
(* EntityObjectGraph with the objects EntityObjectSpawner puts into it.    *)
(*                                                                         *)
(* Three specifications share the variables: Spec (the World called with   *)
(* any handle), SpecIds (the type id counter) and SpecGraph (objects       *)
(* spawned, committed, destroyed and compiled over the World).             *)
(*                                                                         *)
(* The debug build is modelled: a failing assert() aborts the process      *)
(* (fault = "assert").  An out-of-bounds vector read is undefined          *)
(* behaviour and is modelled as a nondeterministic choice (fault = "ub"    *)
(* when the read lets the operation go on over memory it does not own).    *)
(* std::unordered_map::at on a missing key throws std::out_of_range        *)
(* (result "throw"): the exception leaves the World as it was and the      *)
(* caller may catch it and go on.                                          *)
(*                                                                         *)
(* Ids are 0-based as in the code; TLA+ sequences are 1-based, so slot id  *)
(* is entities_[id + 1].  Generations stay far below 2^32 within the       *)
(* bounds, so the uint32_t wrap of gen + 1 is out of reach.                *)
(***************************************************************************)
EXTENDS Integers, Sequences, FiniteSets, TLC

\* Number of CreateEntity calls explored.
MaxCreates == 3

\* Number of entity slots (fresh ids) explored.
MaxSlots == 2

\* Number of component type ids (0 .. NumComponentIds - 1) explored.
NumComponentIds == 2

\* Number of component types (classes derived from ComponentBase) explored.
NumTypes == 4

\* Number of EntityObjectGraph::Update passes explored.
MaxPasses == 2

\* Number of CreateEntity calls explored around the frames of System::Update.
MaxFrameCreates == 2

\* The ids and generations given to Entity(id, gen) have their 1 bits among bit 0
\* and the ProbeHighBits highest bits of a uint32_t.
ProbeHighBits == 2

\* JobScheduler is constructed with at most MaxWorkers worker threads.
MaxWorkers == 2

\* At most MaxJobs jobs are scheduled.
MaxJobs == 2

VARIABLES
    entities_,                      \* std::vector<Entity>
    entity_validity_,               \* std::vector<bool>
    free_entities_,                 \* std::vector<Entity>, used as a stack
    entities_to_components_map_,    \* Entity -> set of owned component ids
    component_to_entities_map_,     \* component id -> std::set<Entity>
    fault,                          \* "none" | "assert" | "ub"
    last,                           \* the call made last and its outcome
    issued,                         \* history: entities CreateEntity returned
    destroyed,                      \* history: entities DestroyEntity returned true for
    live,                           \* history: returned by CreateEntity, no DestroyEntity call since
    committed,                      \* history: entities CommitEntity returned true for
    committedWith,                  \* history: component ids owned by an entity at its CommitEntity
    added,                          \* history: <<entity, id>> whose last successful Add/RemoveComponent was Add
    next_id_,                       \* Component::next_id_
    static_id,                      \* type -> the `static uint32_t id` of ComponentBase<T>::ID, once initialised
    referenced,                     \* history: the types in the order of their first ID() call
    id_call,                        \* the ID() / GetMaxID() call made last and its value
    entity_objects_,                \* std::vector<std::unique_ptr<EntityObject>>
    update_order_,                  \* std::vector<size_t>
    going_to_remove_indices,        \* the indices the last Compile erased
    destroy_returned,               \* history: objects whose Destroy() has returned
    spawned_in_pass,                \* history: objects added while Update was running, since the last Compile
    update_pos,                     \* position in update_order_ of the hook Update is running, 0 outside Update
    hook_log,                       \* history: OnStart / OnUpdate invoked in the last Update pass, in order
    passes,                         \* history: number of Update passes begun
    on_create_calls,                \* history: object -> number of OnCreate calls
    on_start_calls,                 \* history: object -> number of OnStart calls
    on_start_true,                  \* history: objects whose OnStart has returned true
    frame,                          \* System::Update: where it is, what Compile and Update returned to it, its result
    sweep_log,                      \* history: <<component id, entity>> of the Component::Update calls of the last frame
    entity1,                        \* an Entity object: its bits_ and the constructor call that made it
    entity2,                        \* a second Entity object
    unpacked,                       \* what GetID, GetGen and IsValid last returned for entity1
    compared,                       \* what ==, != and < last returned for entity1 and entity2
    job_queue_,                     \* JobScheduler::job_queue_: the queued jobs, front first
    mutex_,                         \* JobScheduler::mutex_: the set of the thread holding it (empty: free)
    stop_flag_,                     \* JobScheduler::stop_flag_
    worker_thread_,                 \* JobScheduler::worker_thread_: the worker threads started
    worker_pc,                      \* worker -> where it is in JobScheduler::Work
    job_set,                        \* worker -> the job it took from the queue (0: none)
    completed_,                     \* job -> JobState::completed_
    state_mutex_,                   \* job -> JobState::mutex_: the set of the thread holding it
    main_pc,                        \* the scheduling thread: the call it is in and its argument
    scheduled,                      \* number of ScheduleJob calls made
    taken_by,                       \* history: job -> workers that took it from the queue
    executed,                       \* history: job -> number of times its function ran to completion
    mark_completed_calls,           \* history: job -> number of MarkCompleted calls on its state
    wait_blocked,                   \* history: jobs for which Wait() blocked
    wait_returned                   \* history: jobs for which Wait() returned

vars == <<entities_, entity_validity_, free_entities_, entities_to_components_map_,
          component_to_entities_map_, fault, last, issued, destroyed, live,
          committed, committedWith, added, next_id_, static_id, referenced,
          id_call, entity_objects_, update_order_, going_to_remove_indices,
          destroy_returned, spawned_in_pass, update_pos, hook_log, passes, on_create_calls,
          on_start_calls, on_start_true, frame, sweep_log, entity1, entity2,
          unpacked, compared, job_queue_, mutex_, stop_flag_, worker_thread_,
          worker_pc, job_set, completed_, state_mutex_, main_pc, scheduled,
          taken_by, executed, mark_completed_calls, wait_blocked, wait_returned>>

world == <<entities_, entity_validity_, free_entities_, entities_to_components_map_,
           component_to_entities_map_>>

history == <<issued, destroyed, live, committed, committedWith, added>>

types == <<next_id_, static_id, referenced, id_call>>

graph == <<entity_objects_, update_order_, going_to_remove_indices, destroy_returned,
           spawned_in_pass>>

pass == <<update_pos, hook_log, passes, on_start_calls, on_start_true>>

hooks == <<pass, on_create_calls>>

system == <<frame, sweep_log>>

values == <<entity1, entity2, unpacked, compared>>

scheduler == <<job_queue_, mutex_, stop_flag_, worker_thread_, worker_pc, job_set>>

job_states == <<completed_, state_mutex_>>

job_history == <<taken_by, executed, mark_completed_calls, wait_blocked, wait_returned>>

jobs == <<scheduler, job_states, main_pc, scheduled, job_history>>

----------------------------------------------------------------------------
\* Entity values

\* Entity::Entity(id, gen): a valid entity.
Entity(id, gen) == [valid |-> TRUE, id |-> id, gen |-> gen]

\* Entity::Entity(): the invalid entity, MakeBits(0, 0, false).
InvalidEntity == [valid |-> FALSE, id |-> 0, gen |-> 0]

ComponentIds == 0 .. (NumComponentIds - 1)

\* The component types of the program, numbered in no particular order.
Types == 0 .. (NumTypes - 1)

\* The elements of a sequence
Range(s) == {s[i] : i \in DOMAIN s}

\* The entity values a caller may pass: every entity CreateEntity has returned
\* (live or stale), an entity whose id is one past the last slot, one whose id
\* is further out, and the default-constructed entity.
Handles ==
    Range(issued) \cup {Entity(Len(entities_), 0), Entity(Len(entities_) + 1, 0), InvalidEntity}

\* std::vector::back
Back(s) == s[Len(s)]

\* pop_back leaves the vector as it is.
PopBack_Keep(s) == s

\* std::vector::pop_back
PopBack(s) == SubSeq(s, 1, Len(s) - 1)

----------------------------------------------------------------------------
\* Lookups on the World

\* The id indexes an allocated slot (the assert of CheckEntityValidity and
\* the first assert of RemoveComponent).
IdInRange(entity) == entity.id < Len(entities_)

\* CheckEntityValidity compares the stored entity only, not the slot's flag.
CheckEntityValidity_NoFlag(entity) == entities_[entity.id + 1] = entity

\* World::CheckEntityValidity past its assert: the slot is marked valid and
\* the entity stored for the id equals the handle.
CheckEntityValidity(entity) ==
    entity_validity_[entity.id + 1] /\ entities_[entity.id + 1] = entity

\* World::CheckEntityCondition.  The range test is `id > size`, so an id equal
\* to size goes on to read entity_validity_[size], one past the end: "ub".
CheckEntityCondition(entity) ==
    IF entity.id > Len(entities_) THEN "fail"
    ELSE IF entity.id = Len(entities_) THEN "ub"
    ELSE IF ~entity_validity_[entity.id + 1] THEN "fail"
    ELSE IF entities_[entity.id + 1] # entity THEN "fail"
    ELSE "ok"

\* entities_to_components_map_.find(entity) != end()
HasEntry(entity) == entity \in DOMAIN entities_to_components_map_

\* The component ids in the entity's inner map (empty when it has no entry).
Owned(entity) ==
    IF HasEntry(entity) THEN entities_to_components_map_[entity] ELSE {}

\* World::View: the index set of the id, or the static empty set.
View(component_id) ==
    IF component_id \in DOMAIN component_to_entities_map_
    THEN component_to_entities_map_[component_id]
    ELSE {}

\* The outcomes of assert(CheckEntityCondition(entity)): the handler goes on
\* ("ok"), the assert aborts ("assert"), or the read past the end of the
\* vectors lets it run on over memory it does not own ("ub").
ConditionOutcomes(entity) ==
    CASE CheckEntityCondition(entity) = "ok"   -> {"ok"}
      [] CheckEntityCondition(entity) = "fail" -> {"assert"}
      [] CheckEntityCondition(entity) = "ub"   -> {"assert", "ub"}

\* HasComponent returns true whenever the entity has an inner map with
\* something in it.
HasComponent_AnyOwned(entity, component_id) ==
    HasEntry(entity) /\ entities_to_components_map_[entity] # {}

\* World::HasComponent past its assert: find the entity, then the id.
HasComponent(entity, component_id) ==
    HasEntry(entity) /\ component_id \in entities_to_components_map_[entity]

\* World::GetComponent past its assert: nullptr when the entity or the id is
\* not found, the component otherwise.
GetComponent(entity, component_id) ==
    IF ~HasEntry(entity) THEN "nullptr"
    ELSE IF component_id \notin entities_to_components_map_[entity] THEN "nullptr"
    ELSE "component"

\* World::GetHavingComponents: entities_to_components_map_.at(entity) throws
\* std::out_of_range when the entity has no entry; no assert is made.
GetHavingComponents(entity) ==
    [throws |-> ~HasEntry(entity), ids |-> Owned(entity)]

\* The outcomes of a call of HasComponent: "true", "false", or a failed
\* precondition.
HasComponentCall(entity, component_id) ==
    IF CheckEntityCondition(entity) = "ok"
    THEN {IF HasComponent(entity, component_id) THEN "true" ELSE "false"}
    ELSE ConditionOutcomes(entity)

\* The outcomes of a call of GetComponent: "component", "nullptr", or a
\* failed precondition.
GetComponentCall(entity, component_id) ==
    IF CheckEntityCondition(entity) = "ok"
    THEN {GetComponent(entity, component_id)}
    ELSE ConditionOutcomes(entity)

\* AddComponent does not test whether the entity owns the id already.
AddComponentAsserts_NoOwnedTest(entity, component_id, is_null) == ~is_null

\* AddComponent's asserts after CheckEntityCondition: the component is not
\* null and the entity does not own the id yet.
AddComponentAsserts(entity, component_id, is_null) ==
    ~is_null /\ component_id \notin Owned(entity)

\* RemoveComponent's four asserts: id in range, slot valid, stored entity
\* equal to the handle, the entity owns the id.
RemoveComponentAsserts(entity, component_id) ==
    /\ IdInRange(entity)
    /\ entity_validity_[entity.id + 1]
    /\ entities_[entity.id + 1] = entity
    /\ component_id \in Owned(entity)

----------------------------------------------------------------------------
\* Mutants: the handlers' statements with a plausible slip

\* The reused entity keeps the generation of the destroyed one.
ReusedEntity_SameGen(entity) == Entity(entity.id, entity.gen)

\* CommitEntity inserts nothing into the index.
CommitIndex_NoInsert(index, entity, cs) == index

\* RemoveComponent empties the index set of the id.
RemoveFromIndex_Clear(index, entity, component_id) ==
    IF component_id \in DOMAIN index
    THEN [index EXCEPT ![component_id] = {}]
    ELSE index

\* AddComponent inserts into the View of the id whether the entity comes to
\* own the component or not: the index set of every id gets the entity.
AddToIndex_Every(index, entity, component_id) ==
    [c \in DOMAIN index |-> index[c] \cup {entity}]

\* RemoveComponent leaves the entity in the index.
RemoveFromIndex_Never(index, entity, component_id) == index

----------------------------------------------------------------------------
\* Statements of the handlers, as functions of the maps they update

\* entities_to_components_map_[entity] = cs (operator[] creates the entry).
WithOwned(map, entity, cs) ==
    [x \in (DOMAIN map) \cup {entity} |-> IF x = entity THEN cs ELSE map[x]]

\* CreateEntity, reuse branch: the entity built from the popped one.
ReusedEntity(entity) == Entity(entity.id, entity.gen + 1)

\* CreateEntity, fresh branch: the entity built for the next slot.
FreshEntity == Entity(Len(entities_), 0)

\* CommitEntity's loop: component_to_entities_map_[c].insert(entity) for
\* every c the entity owns (operator[] creates the index set).
CommitIndex(index, entity, cs) ==
    [c \in (DOMAIN index) \cup cs |->
        IF c \in cs
        THEN (IF c \in DOMAIN index THEN index[c] ELSE {}) \cup {entity}
        ELSE index[c]]

\* AddComponent: insert into the index set of the id if that set exists.
AddToIndex(index, entity, component_id) ==
    IF component_id \in DOMAIN index
    THEN [index EXCEPT ![component_id] = @ \cup {entity}]
    ELSE index

\* RemoveComponent: erase from the index set of the id if that set exists.
RemoveFromIndex(index, entity, component_id) ==
    IF component_id \in DOMAIN index
    THEN [index EXCEPT ![component_id] = @ \ {entity}]
    ELSE index

\* DestroyEntity's loop: RemoveComponent(entity, c) for every id of
\* GetHavingComponents(entity); the index after all the removals.
RECURSIVE RemoveAllFromIndex(_, _, _)
RemoveAllFromIndex(index, entity, cs) ==
    IF cs = {} THEN index
    ELSE LET c == CHOOSE x \in cs : TRUE
         IN  RemoveAllFromIndex(RemoveFromIndex(index, entity, c), entity, cs \ {c})

----------------------------------------------------------------------------
\* The record of a call: its arguments, its outcome ("true", "false", "entity",
\* "throw", "abort") and what held of the entity when the call was made: the
\* components it owned, the views it was in, whether it was valid.
Call(op, entity, component_id, result) ==
    [op |-> op, entity |-> entity, cid |-> component_id, result |-> result,
     comps |-> Owned(entity),
     views |-> {c \in ComponentIds : entity \in View(c)},
     valid |-> IdInRange(entity) /\ CheckEntityValidity(entity)]

NoCall == [op |-> "none", entity |-> InvalidEntity, cid |-> -1, result |-> "none",
           comps |-> {}, views |-> {}, valid |-> FALSE]

\* A failed assert: the process aborts, nothing is written.
AssertFails(op, entity, component_id) ==
    /\ fault' = "assert"
    /\ last' = Call(op, entity, component_id, "abort")
    /\ UNCHANGED <<world, history>>

\* The precondition read past the end of entity_validity_ / entities_: the
\* assert fires, or the garbage read passes and the handler runs on.
ReadsPastEnd(op, entity, component_id) ==
    /\ fault' \in {"assert", "ub"}
    /\ last' = Call(op, entity, component_id, "abort")
    /\ UNCHANGED <<world, history>>

Init ==
    /\ entities_ = <<>>
    /\ entity_validity_ = <<>>
    /\ free_entities_ = <<>>
    /\ entities_to_components_map_ = <<>>
    /\ component_to_entities_map_ = <<>>
    /\ fault = "none"
    /\ last = NoCall
    /\ issued = <<>>
    /\ destroyed = {}
    /\ live = {}
    /\ committed = {}
    /\ committedWith = {}
    /\ added = {}
    /\ next_id_ = 0
    /\ static_id = <<>>
    /\ referenced = <<>>
    /\ id_call = [op |-> "none", type |-> -1, value |-> -1]
    /\ entity_objects_ = <<>>
    /\ update_order_ = <<>>
    /\ going_to_remove_indices = <<>>
    /\ destroy_returned = {}
    /\ spawned_in_pass = {}
    /\ update_pos = 0
    /\ hook_log = <<>>
    /\ passes = 0
    /\ on_create_calls = [o \in 1 .. MaxCreates |-> 0]
    /\ on_start_calls = [o \in 1 .. MaxCreates |-> 0]
    /\ on_start_true = {}
    /\ frame = [pc |-> "idle", compile |-> "none", update |-> "none", result |-> "none"]
    /\ sweep_log = <<>>
    /\ entity1 = [bits_ |-> {}, ctor |-> "Entity()", id |-> {}, gen |-> {}]
    /\ entity2 = [bits_ |-> {}, ctor |-> "Entity()", id |-> {}, gen |-> {}]
    /\ unpacked = [called |-> FALSE, id |-> {}, gen |-> {}, valid |-> FALSE]
    /\ compared = [called |-> FALSE, eq |-> FALSE, ne |-> FALSE, lt |-> FALSE, gt |-> FALSE]
    /\ job_queue_ = <<>>
    /\ mutex_ = {}
    /\ stop_flag_ = FALSE
    /\ worker_thread_ = {}
    /\ worker_pc = [w \in 1 .. MaxWorkers |-> "none"]
    /\ job_set = [w \in 1 .. MaxWorkers |-> 0]
    /\ completed_ = [j \in 1 .. MaxJobs |-> FALSE]
    /\ state_mutex_ = [j \in 1 .. MaxJobs |-> {}]
    /\ main_pc = [op |-> "unconstructed", arg |-> 0]
    /\ scheduled = 0
    /\ taken_by = [j \in 1 .. MaxJobs |-> {}]
    /\ executed = [j \in 1 .. MaxJobs |-> 0]
    /\ mark_completed_calls = [j \in 1 .. MaxJobs |-> 0]
    /\ wait_blocked = {}
    /\ wait_returned = {}

\* World::CreateEntity
CreateEntity ==
    /\ fault = "none"
    /\ Len(issued) < MaxCreates
    /\ free_entities_ # <<>> \/ Len(entities_) < MaxSlots
    /\ LET new_entity == IF free_entities_ # <<>>
                         THEN ReusedEntity(Back(free_entities_))
                         ELSE FreshEntity
       IN  /\ IF free_entities_ # <<>>
              THEN /\ free_entities_' = PopBack(free_entities_)
                   /\ entity_validity_' =
                        [entity_validity_ EXCEPT ![Back(free_entities_).id + 1] = TRUE]
                   /\ UNCHANGED entities_
              ELSE /\ entities_' = Append(entities_, new_entity)
                   /\ entity_validity_' = Append(entity_validity_, TRUE)
                   /\ UNCHANGED free_entities_
           /\ issued' = Append(issued, new_entity)
           /\ live' = live \cup {new_entity}
           /\ last' = [op |-> "CreateEntity", entity |-> new_entity, cid |-> -1,
                       result |-> "entity", comps |-> {}, views |-> {}, valid |-> FALSE]
    /\ UNCHANGED <<entities_to_components_map_, component_to_entities_map_, fault,
                   destroyed, committed, committedWith, added>>

\* World::CommitEntity
CommitEntity(entity) ==
    /\ fault = "none"
    /\ LET cond == CheckEntityCondition(entity)
       IN  CASE cond = "fail" -> AssertFails("CommitEntity", entity, -1)
             [] cond = "ub"   -> ReadsPastEnd("CommitEntity", entity, -1)
             [] cond = "ok"   ->
                /\ entities_to_components_map_' =
                     WithOwned(entities_to_components_map_, entity, Owned(entity))
                /\ component_to_entities_map_' =
                     CommitIndex(component_to_entities_map_, entity, Owned(entity))
                /\ committed' = committed \cup {entity}
                /\ committedWith' = committedWith \cup Owned(entity)
                /\ last' = Call("CommitEntity", entity, -1, "true")
                /\ UNCHANGED <<entities_, entity_validity_, free_entities_, fault,
                               issued, destroyed, live, added>>

\* World::DestroyEntity (GetHavingComponents and RemoveComponent included)
DestroyEntity(entity) ==
    /\ fault = "none"
    /\ LET cond == CheckEntityCondition(entity)
       IN  CASE cond = "fail" -> AssertFails("DestroyEntity", entity, -1)
             [] cond = "ub"   -> ReadsPastEnd("DestroyEntity", entity, -1)
             [] cond = "ok" /\ ~HasEntry(entity) ->
                \* GetHavingComponents: entities_to_components_map_.at(entity) throws
                /\ last' = Call("DestroyEntity", entity, -1, "throw")
                /\ live' = live \ {entity}
                /\ UNCHANGED <<world, fault, issued, destroyed, committed, committedWith,
                               added>>
             [] cond = "ok" /\ HasEntry(entity) ->
                /\ entities_to_components_map_' =
                     WithOwned(entities_to_components_map_, entity, {})
                /\ component_to_entities_map_' =
                     RemoveAllFromIndex(component_to_entities_map_, entity, Owned(entity))
                /\ entity_validity_' = [entity_validity_ EXCEPT ![entity.id + 1] = FALSE]
                /\ free_entities_' = Append(free_entities_, entity)
                /\ destroyed' = destroyed \cup {entity}
                /\ live' = live \ {entity}
                /\ added' = added \ {<<entity, c>> : c \in Owned(entity)}
                /\ last' = Call("DestroyEntity", entity, -1, "true")
                /\ UNCHANGED <<entities_, fault, issued, committed, committedWith>>

\* World::AddComponent(entity, component_id, component); is_null: the
\* unique_ptr passed holds nullptr.
AddComponent(entity, component_id, is_null) ==
    /\ fault = "none"
    /\ LET cond == CheckEntityCondition(entity)
       IN  CASE cond = "fail" -> AssertFails("AddComponent", entity, component_id)
             [] cond = "ub"   -> ReadsPastEnd("AddComponent", entity, component_id)
             [] cond = "ok" /\ ~AddComponentAsserts(entity, component_id, is_null) ->
                AssertFails("AddComponent", entity, component_id)
             [] cond = "ok" /\ AddComponentAsserts(entity, component_id, is_null) ->
                /\ entities_to_components_map_' =
                     WithOwned(entities_to_components_map_, entity,
                               Owned(entity) \cup {component_id})
                /\ component_to_entities_map_' =
                     AddToIndex(component_to_entities_map_, entity, component_id)
                /\ added' = added \cup {<<entity, component_id>>}
                /\ last' = Call("AddComponent", entity, component_id, "true")
                /\ UNCHANGED <<entities_, entity_validity_, free_entities_, fault,
                               issued, destroyed, live, committed, committedWith>>

\* World::RemoveComponent
RemoveComponent(entity, component_id) ==
    /\ fault = "none"
    /\ IF ~RemoveComponentAsserts(entity, component_id)
       THEN AssertFails("RemoveComponent", entity, component_id)
       ELSE /\ entities_to_components_map_' =
                 WithOwned(entities_to_components_map_, entity,
                           Owned(entity) \ {component_id})
            /\ component_to_entities_map_' =
                 RemoveFromIndex(component_to_entities_map_, entity, component_id)
            /\ added' = added \ {<<entity, component_id>>}
            /\ last' = Call("RemoveComponent", entity, component_id, "true")
            /\ UNCHANGED <<entities_, entity_validity_, free_entities_, fault,
                           issued, destroyed, live, committed, committedWith>>

\* A call of World::CheckEntityValidity
CheckEntityValidityCall(entity) ==
    /\ fault = "none"
    /\ IF ~IdInRange(entity)
       THEN AssertFails("CheckEntityValidity", entity, -1)
       ELSE /\ last' = Call("CheckEntityValidity", entity, -1,
                            IF CheckEntityValidity(entity) THEN "true" ELSE "false")
            /\ UNCHANGED <<world, fault, history>>

\* World::AddComponent<ComponentType> without the test of Import's result.
AddComponent_ComponentType_NoImportTest(entity, component_id, import_result) ==
    AddComponent(entity, component_id, FALSE)

\* World::AddComponent<ComponentType>(entity, config); component_id is
\* ComponentType::ID(), import_result what ComponentType::Import returns.  The
\* component comes from make_unique, so it is never null.
AddComponent_ComponentType(entity, component_id, import_result) ==
    IF ~import_result
    THEN /\ fault = "none"
         /\ last' = Call("AddComponent<ComponentType>", entity, component_id, "false")
         /\ UNCHANGED <<world, fault, history>>
    ELSE AddComponent(entity, component_id, FALSE)

Next ==
    \/ CreateEntity /\ UNCHANGED <<types, graph, hooks, system, values, jobs>>
    \/ \E entity \in Handles : CommitEntity(entity) /\ UNCHANGED <<types, graph, hooks, system, values, jobs>>
    \/ \E entity \in Handles : DestroyEntity(entity) /\ UNCHANGED <<types, graph, hooks, system, values, jobs>>
    \/ \E entity \in Handles, component_id \in ComponentIds, is_null \in BOOLEAN :
          AddComponent(entity, component_id, is_null) /\ UNCHANGED <<types, graph, hooks, system, values, jobs>>
    \/ \E entity \in Handles, component_id \in ComponentIds :
          RemoveComponent(entity, component_id) /\ UNCHANGED <<types, graph, hooks, system, values, jobs>>
    \/ \E entity \in Handles : CheckEntityValidityCall(entity) /\ UNCHANGED <<types, graph, hooks, system, values, jobs>>
    \/ \E entity \in Handles, component_id \in ComponentIds, import_result \in BOOLEAN :
          AddComponent_ComponentType(entity, component_id, import_result)
            /\ UNCHANGED <<types, graph, hooks, system, values, jobs>>

Spec == Init /\ [][Next]_vars

----------------------------------------------------------------------------
\* Component type ids

\* ID() advances the counter on every call.
NextIdAfterID_EveryCall(type) == next_id_ + 1

\* `static uint32_t id = next_id_++`: the initialiser runs on the first call
\* of ID() for the type only.  (next_id_ stays far below 2^32.)
NextIdAfterID(type) ==
    IF type \in DOMAIN static_id THEN next_id_ ELSE next_id_ + 1

\* ComponentBase<T>::ID
ID(type) ==
    /\ static_id' =
         IF type \in DOMAIN static_id
         THEN static_id
         ELSE [t \in (DOMAIN static_id) \cup {type} |->
                  IF t = type THEN next_id_ ELSE static_id[t]]
    /\ next_id_' = NextIdAfterID(type)
    /\ referenced' =
         IF type \in Range(referenced) THEN referenced ELSE Append(referenced, type)
    /\ id_call' = [op |-> "ID", type |-> type, value |-> static_id'[type]]

\* Component::GetMaxID
GetMaxID ==
    /\ id_call' = [op |-> "GetMaxID", type |-> -1, value |-> next_id_]
    /\ UNCHANGED <<next_id_, static_id, referenced>>

NextIds ==
    \/ \E type \in Types : ID(type) /\ UNCHANGED <<world, fault, last, history, graph, hooks, system, values, jobs>>
    \/ GetMaxID /\ UNCHANGED <<world, fault, last, history, graph, hooks, system, values, jobs>>

SpecIds == Init /\ [][NextIds]_vars

----------------------------------------------------------------------------
\* EntityObjectGraph and the objects in it

\* The update order lists the indices from the last to the first.
UpdateOrder_Reversed(n) == [k \in 1 .. n |-> n - k]

\* Compile always reports success.
CompileResult_AlwaysTrue(order) == TRUE

\* EntityObject::IsValid: entity_handle_.IsValid(), which is
\* world_.CheckEntityValidity(entity_).  The entity of an object was returned
\* by CreateEntity, so its id is in range and the assert holds.
EntityObjectIsValid(entity_object) == CheckEntityValidity(entity_object.entity)

\* Compile's first loop, from index i on: the (0-based) indices of the
\* objects that are not valid, in increasing order.
RECURSIVE CollectInvalid(_, _)
CollectInvalid(objects, i) ==
    IF i > Len(objects) THEN <<>>
    ELSE (IF ~EntityObjectIsValid(objects[i]) THEN <<i - 1>> ELSE <<>>)
            \o CollectInvalid(objects, i + 1)

\* entity_objects_.erase(entity_objects_.begin() + index)
Erase(objects, index) ==
    SubSeq(objects, 1, index) \o SubSeq(objects, index + 2, Len(objects))

\* Compile's second loop: erase indices[i], indices[i - 1], ..., indices[1].
RECURSIVE EraseAll(_, _, _)
EraseAll(objects, indices, i) ==
    IF i = 0 THEN objects
    ELSE EraseAll(Erase(objects, indices[i]), indices, i - 1)

\* Compile's third loop: update_order_.push_back(i) for i = 0 .. n - 1.
UpdateOrder(n) == [k \in 1 .. n |-> k - 1]

\* Compile's return value.
CompileResult(order) == order # <<>>

\* The object is put in front of the others.
AddEntityObject_Front(objects, entity_object) == <<entity_object>> \o objects

\* EntityObjectGraph::AddEntityObject: entity_objects_.push_back
AddEntityObject(objects, entity_object) == Append(objects, entity_object)

\* EntityObjectSpawner::SpawnEntityObject: CreateEntity, then OnCreate is
\* called on the object made for the entity and the object is pushed to the
\* graph.  Objects are numbered in the order in which they are added.
SpawnEntityObject ==
    /\ CreateEntity
    /\ entity_objects_' =
         AddEntityObject(entity_objects_,
                         [obj |-> Len(issued) + 1, entity |-> issued'[Len(issued')],
                          is_started_ |-> FALSE])
    /\ on_create_calls' = [on_create_calls EXCEPT ![Len(issued) + 1] = @ + 1]
    /\ spawned_in_pass' =
         IF update_pos > 0 THEN spawned_in_pass \cup {Len(issued) + 1} ELSE spawned_in_pass
    /\ UNCHANGED <<update_order_, going_to_remove_indices, destroy_returned>>

\* EntityObject::Destroy on the object at (1-based) position i of the graph:
\* OnDestroy, then entity_handle_.Destroy(), which is world_.DestroyEntity.
EntityObjectDestroy(i) ==
    /\ DestroyEntity(entity_objects_[i].entity)
    /\ destroy_returned' =
         IF last'.result = "true"
         THEN destroy_returned \cup {entity_objects_[i].obj}
         ELSE destroy_returned
    /\ UNCHANGED <<entity_objects_, update_order_, going_to_remove_indices,
                   spawned_in_pass>>

\* EntityObjectGraph::Compile
Compile ==
    /\ fault = "none"
    /\ LET indices == CollectInvalid(entity_objects_, 1)
           kept == EraseAll(entity_objects_, indices, Len(indices))
           order == UpdateOrder(Len(kept))
       IN  /\ going_to_remove_indices' = indices
           /\ entity_objects_' = kept
           /\ update_order_' = order
           /\ last' = [op |-> "Compile", entity |-> InvalidEntity, cid |-> -1,
                       result |-> IF CompileResult(order) THEN "true" ELSE "false",
                       comps |-> {}, views |-> {}, valid |-> FALSE]
    /\ spawned_in_pass' = {}
    /\ UNCHANGED <<world, fault, history, destroy_returned>>

\* Update returns at the first hook that returns true.
UpdateStops_OnTrue(hook_result) == hook_result

\* Update calls OnUpdate whether the object is started or not.
Hook_AlwaysOnUpdate(entity_object) == "OnUpdate"

\* Update's choice of the hook: OnStart if the object is not started, else
\* OnUpdate.
Hook(entity_object) == IF entity_object.is_started_ THEN "OnUpdate" ELSE "OnStart"

\* `return false` after a hook that returned false.
UpdateStops(hook_result) == ~hook_result

\* The hook log after Update has called the hook of the object.
Invoke(log, entity_object) ==
    Append(log, [hook |-> Hook(entity_object), obj |-> entity_object.obj,
                 ret |-> "running"])

\* The OnStart counts after Update has called the hook of the object.
CountOnStart(entity_object) ==
    IF Hook(entity_object) = "OnStart"
    THEN [on_start_calls EXCEPT ![entity_object.obj] = @ + 1]
    ELSE on_start_calls

\* The record of a return of EntityObjectGraph::Update.
UpdateReturns(result) ==
    [op |-> "Update", entity |-> InvalidEntity, cid |-> -1, result |-> result,
     comps |-> {}, views |-> {}, valid |-> FALSE]

\* EntityObjectGraph::Update is called: it returns true at once over an empty
\* update order, else it calls the hook of the first object of the order.
UpdateBegin ==
    /\ fault = "none"
    /\ update_pos = 0
    /\ passes < MaxPasses
    /\ passes' = passes + 1
    /\ IF update_order_ = <<>>
       THEN /\ hook_log' = <<>>
            /\ update_pos' = 0
            /\ last' = UpdateReturns("true")
            /\ UNCHANGED on_start_calls
       ELSE /\ hook_log' = Invoke(<<>>, entity_objects_[update_order_[1] + 1])
            /\ update_pos' = 1
            /\ on_start_calls' = CountOnStart(entity_objects_[update_order_[1] + 1])
            /\ UNCHANGED last
    /\ UNCHANGED <<world, fault, history, graph, on_start_true, on_create_calls>>

\* The hook Update is running returns hook_result: Update returns false, or
\* marks the object started after OnStart and goes on to the hook of the next
\* object of the order, or returns true at the end of the order.
HookReturns(hook_result) ==
    /\ fault = "none"
    /\ update_pos > 0
    /\ LET index == update_order_[update_pos]
           entity_object == entity_objects_[index + 1]
           hook == hook_log[Len(hook_log)].hook
           returned_log == [hook_log EXCEPT ![Len(hook_log)].ret =
                               IF hook_result THEN "true" ELSE "false"]
           starts == hook = "OnStart" /\ hook_result
           marked == IF starts
                     THEN [entity_objects_ EXCEPT ![index + 1].is_started_ = TRUE]
                     ELSE entity_objects_
       IN  IF UpdateStops(hook_result)
           THEN /\ update_pos' = 0
                /\ hook_log' = returned_log
                /\ last' = UpdateReturns("false")
                /\ UNCHANGED <<entity_objects_, on_start_calls, on_start_true>>
           ELSE /\ entity_objects_' = marked
                /\ on_start_true' =
                     IF starts THEN on_start_true \cup {entity_object.obj} ELSE on_start_true
                /\ IF update_pos < Len(update_order_)
                   THEN /\ update_pos' = update_pos + 1
                        /\ hook_log' = Invoke(returned_log, marked[update_order_[update_pos + 1] + 1])
                        /\ on_start_calls' = CountOnStart(marked[update_order_[update_pos + 1] + 1])
                        /\ UNCHANGED last
                   ELSE /\ update_pos' = 0
                        /\ hook_log' = returned_log
                        /\ last' = UpdateReturns("true")
                        /\ UNCHANGED on_start_calls
    /\ UNCHANGED <<world, fault, history, update_order_, going_to_remove_indices,
                   destroy_returned, spawned_in_pass, passes, on_create_calls>>

\* The World is reached through the handles SpawnEntityObject and
\* CreateEntity returned.  A hook that Update is running may spawn, commit
\* and destroy; Compile is not called from inside Update.
NextGraph ==
    \/ SpawnEntityObject /\ UNCHANGED <<types, pass, system, values, jobs>>
    \/ CreateEntity /\ UNCHANGED <<types, graph, hooks, system, values, jobs>>
    \/ \E entity \in Range(issued) : CommitEntity(entity) /\ UNCHANGED <<types, graph, hooks, system, values, jobs>>
    \/ \E entity \in Range(issued) : DestroyEntity(entity) /\ UNCHANGED <<types, graph, hooks, system, values, jobs>>
    \/ \E i \in DOMAIN entity_objects_ : EntityObjectDestroy(i) /\ UNCHANGED <<types, hooks, system, values, jobs>>
    \/ update_pos = 0 /\ Compile /\ UNCHANGED <<types, hooks, system, values, jobs>>
    \/ UpdateBegin /\ UNCHANGED <<types, system, values, jobs>>
    \/ \E hook_result \in BOOLEAN : HookReturns(hook_result) /\ UNCHANGED <<types, system, values, jobs>>

SpecGraph == Init /\ [][NextGraph]_vars

----------------------------------------------------------------------------
\* System::Update, the frame.  The time stamps and delta_time are left out:
\* no branch depends on them.

\* System::Update goes on after a false result.
SystemStops_Never(result) == FALSE

\* The sweep visits the component ids from the largest to the smallest.
SweepIds_Descending == [k \in 1 .. next_id_ |-> next_id_ - k]

\* `if (!loop_continue) return false` after Compile and after Update.
SystemStops(result) == result = "false"

\* for (component_id = 0; component_id < Component::GetMaxID(); component_id++)
SweepIds == [k \in 1 .. next_id_ |-> k - 1]

\* Entity::operator< on valid entities: by generation, then by id.
EntityBefore(a, b) == a.gen < b.gen \/ (a.gen = b.gen /\ a.id < b.id)

\* The iteration order of a std::set<Entity>.
RECURSIVE InSetOrder(_)
InSetOrder(entities) ==
    IF entities = {} THEN <<>>
    ELSE LET first == CHOOSE a \in entities :
                          \A b \in entities \ {a} : EntityBefore(a, b)
         IN  <<first>> \o InSetOrder(entities \ {first})

\* The <<component id, entity>> pairs the two loops of the sweep visit, from
\* position k of the ids on.
RECURSIVE SweepPairs(_, _)
SweepPairs(ids, k) ==
    IF k > Len(ids) THEN <<>>
    ELSE [i \in 1 .. Cardinality(View(ids[k])) |->
             <<ids[k], InSetOrder(View(ids[k]))[i]>>]
            \o SweepPairs(ids, k + 1)

\* What the body of the sweep does with a pair: GetComponent asserts
\* CheckEntityCondition, and the component it returns is dereferenced.
SweepBody(pair) ==
    IF CheckEntityCondition(pair[2]) # "ok" THEN "assert"
    ELSE IF GetComponent(pair[2], pair[1]) = "nullptr" THEN "ub"
    ELSE "update"

\* The pairs before the first one whose body does not reach Update.
RECURSIVE Updated(_, _)
Updated(pairs, i) ==
    IF i > Len(pairs) \/ SweepBody(pairs[i]) # "update" THEN <<>>
    ELSE <<pairs[i]>> \o Updated(pairs, i + 1)

\* World::AddComponent<ComponentType> with an accepted configuration:
\* AddComponent(entity, ComponentType::ID(), component).
AddComponentOfType(entity, type) ==
    /\ ID(type)
    /\ AddComponent(entity, static_id'[type], FALSE)

\* System::Update is called: Compile, and the return if it failed.
SystemUpdateBegin ==
    /\ frame.pc \in {"idle", "returned"}
    /\ update_pos = 0
    /\ passes < MaxPasses
    /\ Compile
    /\ frame' = IF SystemStops(last'.result)
                 THEN [pc |-> "returned", compile |-> last'.result, update |-> "none",
                       result |-> "false"]
                 ELSE [pc |-> "update", compile |-> last'.result, update |-> "none",
                       result |-> "none"]
    /\ sweep_log' = <<>>
    /\ UNCHANGED hooks

\* System::Update calls EntityObjectGraph::Update.
SystemUpdateObjects ==
    /\ frame.pc = "update"
    /\ UpdateBegin
    /\ frame' = IF update_pos' > 0 THEN [frame EXCEPT !.pc = "objects"]
                 ELSE IF SystemStops(last'.result)
                 THEN [frame EXCEPT !.pc = "returned", !.update = last'.result,
                                    !.result = "false"]
                 ELSE [frame EXCEPT !.pc = "sweep", !.update = last'.result]
    /\ UNCHANGED sweep_log

\* A hook returns inside the Update that System::Update called; when Update
\* returns, System::Update returns false or goes on to the sweep.
SystemHookReturns(hook_result) ==
    /\ frame.pc = "objects"
    /\ HookReturns(hook_result)
    /\ frame' = IF update_pos' > 0 THEN frame
                 ELSE IF SystemStops(last'.result)
                 THEN [frame EXCEPT !.pc = "returned", !.update = last'.result,
                                    !.result = "false"]
                 ELSE [frame EXCEPT !.pc = "sweep", !.update = last'.result]
    /\ UNCHANGED sweep_log

\* The component sweep of System::Update and its return.
SystemSweep ==
    /\ fault = "none"
    /\ frame.pc = "sweep"
    /\ LET pairs == SweepPairs(SweepIds, 1)
           updated == Updated(pairs, 1)
       IN  /\ sweep_log' = updated
           /\ IF Len(updated) = Len(pairs)
              THEN /\ frame' = [frame EXCEPT !.pc = "returned", !.result = "true"]
                   /\ UNCHANGED fault
              ELSE /\ fault' = SweepBody(pairs[Len(updated) + 1])
                   /\ UNCHANGED frame
    /\ UNCHANGED <<world, last, history, graph, hooks>>

\* Between the frames the program spawns objects, creates entities, adds
\* components, commits and destroys objects; the hooks of a frame do nothing
\* to the World or the graph here.
NextFrame ==
    \/ frame.pc \in {"idle", "returned"} /\ Len(issued) < MaxFrameCreates
          /\ SpawnEntityObject /\ UNCHANGED <<types, pass, system, values, jobs>>
    \/ frame.pc \in {"idle", "returned"} /\ Len(issued) < MaxFrameCreates
          /\ CreateEntity /\ UNCHANGED <<types, graph, hooks, system, values, jobs>>
    \/ \E entity \in Range(issued) :
          frame.pc \in {"idle", "returned"} /\ CommitEntity(entity)
            /\ UNCHANGED <<types, graph, hooks, system, values, jobs>>
    \/ \E entity \in Range(issued), type \in ComponentIds :
          frame.pc \in {"idle", "returned"} /\ AddComponentOfType(entity, type)
            /\ UNCHANGED <<graph, hooks, system, values, jobs>>
    \/ \E i \in DOMAIN entity_objects_ :
          frame.pc \in {"idle", "returned"} /\ EntityObjectDestroy(i)
            /\ UNCHANGED <<types, hooks, system, values, jobs>>
    \/ SystemUpdateBegin /\ UNCHANGED <<types, values, jobs>>
    \/ SystemUpdateObjects /\ UNCHANGED <<types, values, jobs>>
    \/ \E hook_result \in BOOLEAN : SystemHookReturns(hook_result) /\ UNCHANGED <<types, values, jobs>>
    \/ SystemSweep /\ UNCHANGED <<types, values, jobs>>

SpecFrame == Init /\ [][NextFrame]_vars

----------------------------------------------------------------------------
\* The packed Entity value.  An unsigned integer is the set of the positions of
\* its 1 bits: | is union, & is intersection, a shift moves the positions.

\* Mutant of GetID: the id is read without the shift.
GetID_NoShift(bits) == (bits \cap (0 .. 30)) \cap (0 .. 31)

\* Mutant of OperatorLess: ids are compared first, then generations.
OperatorLess_IdMajor(this, other) ==
    LET Less(a, b) == a # b /\ (CHOOSE h \in (a \ b) \cup (b \ a) :
                                  \A k \in (a \ b) \cup (b \ a) : k <= h) \in b
        IdOf(e) == {b - 1 : b \in {c \in e.bits_ : c >= 1 /\ c <= 31}}
        GenOf(e) == {b - 32 : b \in {c \in e.bits_ : c >= 32}}
    IN  IF IdOf(this) # IdOf(other)
        THEN Less(IdOf(this), IdOf(other))
        ELSE Less(GenOf(this), GenOf(other))

VALID_SHIFT == 0

ID_SHIFT == 1

GEN_SHIFT == 32

\* x << shift on a uint64_t: bits shifted past bit 63 are lost.
ShiftLeft(bits, shift) == {b + shift : b \in bits} \cap (0 .. 63)

\* x >> shift on a uint64_t.
ShiftRight(bits, shift) == {b - shift : b \in {c \in bits : c >= shift}}

\* (uint64_t{1} << n) - 1: the n lowest bits.
Ones(n) == 0 .. (n - 1)

VALID_MASK == ShiftLeft({0}, VALID_SHIFT)

ID_MASK == Ones(31)

GEN_MASK == Ones(32)

\* static_cast<std::uint32_t>: the 32 lowest bits.
ToUint32(bits) == bits \cap (0 .. 31)

\* a < b on two unsigned integers: the highest bit in which they differ is b's.
UintLess(a, b) ==
    /\ a # b
    /\ LET differ == (a \ b) \cup (b \ a)
       IN  (CHOOSE h \in differ : \A k \in differ : k <= h) \in b

\* The uint32_t values given to the constructor.
Uint32Values == SUBSET ({0} \cup ((32 - ProbeHighBits) .. 31))

\* Entity::MakeBits
MakeBits(id, gen, valid) ==
    LET v == IF valid THEN {0} ELSE {}
    IN  ShiftLeft(v \cap {0}, VALID_SHIFT)
          \cup ShiftLeft(id \cap ID_MASK, ID_SHIFT)
          \cup ShiftLeft(gen \cap GEN_MASK, GEN_SHIFT)

\* Entity::GetID
GetID(bits) == ToUint32(ShiftRight(bits, ID_SHIFT) \cap ID_MASK)

\* Entity::GetGen
GetGen(bits) == ToUint32(ShiftRight(bits, GEN_SHIFT) \cap GEN_MASK)

\* Entity::IsValid
IsValid(bits) == (bits \cap VALID_MASK) # {}

\* Entity::operator==
OperatorEq(this, other) == this.bits_ = other.bits_

\* Entity::operator!=
OperatorNe(this, other) == this.bits_ # other.bits_

\* Entity::operator<
OperatorLess(this, other) ==
    LET this_gen == GetGen(this.bits_)
        other_gen == GetGen(other.bits_)
        this_id == GetID(this.bits_)
        other_id == GetID(other.bits_)
    IN  IF this_gen # other_gen
        THEN UintLess(this_gen, other_gen)
        ELSE UintLess(this_id, other_id)

NotUnpacked == [called |-> FALSE, id |-> {}, gen |-> {}, valid |-> FALSE]

NotCompared == [called |-> FALSE, eq |-> FALSE, ne |-> FALSE, lt |-> FALSE, gt |-> FALSE]

\* Entity::Entity(): entity1 (which = 1) or entity2 becomes the default entity.
ConstructDefault(which) ==
    LET made == [bits_ |-> MakeBits({}, {}, FALSE), ctor |-> "Entity()",
                 id |-> {}, gen |-> {}]
    IN  /\ entity1' = IF which = 1 THEN made ELSE entity1
        /\ entity2' = IF which = 2 THEN made ELSE entity2
        /\ unpacked' = NotUnpacked
        /\ compared' = NotCompared

\* Entity::Entity(id, gen)
ConstructEntity(which, id, gen) ==
    LET made == [bits_ |-> MakeBits(id, gen, TRUE), ctor |-> "Entity(id, gen)",
                 id |-> id, gen |-> gen]
    IN  /\ entity1' = IF which = 1 THEN made ELSE entity1
        /\ entity2' = IF which = 2 THEN made ELSE entity2
        /\ unpacked' = NotUnpacked
        /\ compared' = NotCompared

\* entity1.GetID(), entity1.GetGen(), entity1.IsValid()
Unpack ==
    /\ unpacked' = [called |-> TRUE,
                    id |-> GetID(entity1.bits_),
                    gen |-> GetGen(entity1.bits_),
                    valid |-> IsValid(entity1.bits_)]
    /\ UNCHANGED <<entity1, entity2, compared>>

\* entity1 == entity2, entity1 != entity2, entity1 < entity2, entity2 < entity1
Compare ==
    /\ compared' = [called |-> TRUE,
                    eq |-> OperatorEq(entity1, entity2),
                    ne |-> OperatorNe(entity1, entity2),
                    lt |-> OperatorLess(entity1, entity2),
                    gt |-> OperatorLess(entity2, entity1)]
    /\ UNCHANGED <<entity1, entity2, unpacked>>

NextEntity ==
    \/ \E which \in {1, 2} :
          ConstructDefault(which)
            /\ UNCHANGED <<world, fault, last, history, types, graph, hooks, system, jobs>>
    \/ \E which \in {1, 2} : \E id \in Uint32Values, gen \in Uint32Values :
          ConstructEntity(which, id, gen)
            /\ UNCHANGED <<world, fault, last, history, types, graph, hooks, system, jobs>>
    \/ Unpack /\ UNCHANGED <<world, fault, last, history, types, graph, hooks, system, jobs>>
    \/ Compare /\ UNCHANGED <<world, fault, last, history, types, graph, hooks, system, jobs>>

SpecEntity == Init /\ [][NextEntity]_vars

----------------------------------------------------------------------------
\* The job scheduler: one scheduling thread (thread 0) and the worker threads
\* 1 .. num_worker_threads, each running JobScheduler::Work.  A thread takes one
\* step at a time; a mutex is the set of the thread that holds it; the threads
\* blocked in cv_.wait are the workers at "waiting", the thread blocked in the
\* wait of a JobState is the scheduling thread at "wait_waiting".

\* Mutant of WaitPredicate: Wait() does not look at completed_.
WaitPredicate_Always(job) == TRUE

\* Mutant of QueueAfterPop: the job set stays in the queue.
QueueAfterPop_Keep(queue) == queue

\* Mutant of NotifiedByOne: ScheduleJob wakes nobody.
NotifiedByOne_Nobody(waiting) == {{}}

\* The workers blocked in cv_.wait.
Waiting == {w \in worker_thread_ : worker_pc[w] = "waiting"}

\* cv_.notify_one(): the sets of workers it may wake.
NotifiedByOne(waiting) == IF waiting = {} THEN {{}} ELSE {{w} : w \in waiting}

\* The predicate of the wait in Work: !job_queue_.empty() || stop_flag_.load()
WorkPredicate == job_queue_ # <<>> \/ stop_flag_

\* The predicate of the wait in JobHandle::Wait: state_->completed_.load()
WaitPredicate(job) == completed_[job]

\* job_queue_.pop()
QueueAfterPop(queue) == Tail(queue)

MainIdle == [op |-> "idle", arg |-> 0]

\* JobScheduler::JobScheduler(num_worker_threads)
JobSchedulerConstruct(num_worker_threads) ==
    /\ main_pc.op = "unconstructed"
    /\ stop_flag_' = FALSE
    /\ worker_thread_' = 1 .. num_worker_threads
    /\ worker_pc' = [w \in 1 .. MaxWorkers |->
                       IF w <= num_worker_threads THEN "loop" ELSE "none"]
    /\ main_pc' = MainIdle
    /\ UNCHANGED <<job_queue_, mutex_, job_set, job_states, scheduled, job_history>>

\* JobScheduler::ScheduleJob: under mutex_, pushes the job and notifies one
\* waiting worker.
ScheduleJob ==
    /\ main_pc.op = "idle"
    /\ scheduled < MaxJobs
    /\ mutex_ = {}
    /\ scheduled' = scheduled + 1
    /\ job_queue_' = Append(job_queue_, scheduled + 1)
    /\ \E woken \in NotifiedByOne(Waiting) :
          worker_pc' = [w \in 1 .. MaxWorkers |->
                           IF w \in woken THEN "woken" ELSE worker_pc[w]]
    /\ UNCHANGED <<mutex_, stop_flag_, worker_thread_, job_set, job_states, main_pc,
                   job_history>>

\* JobHandle::Wait, std::unique_lock lock(state_->mutex_)
WaitLock(job) ==
    /\ main_pc.op \in {"idle", "destroyed"}
    /\ job \in 1 .. scheduled
    /\ state_mutex_[job] = {}
    /\ state_mutex_' = [state_mutex_ EXCEPT ![job] = {0}]
    /\ main_pc' = [op |-> IF main_pc.op = "idle" THEN "wait_pred" ELSE "late_wait_pred",
                   arg |-> job]
    /\ UNCHANGED <<scheduler, completed_, scheduled, job_history>>

\* JobHandle::Wait, the predicate of cv_.wait evaluated under the lock: Wait
\* returns if it holds, else the thread is about to block.
WaitPredicateStep ==
    /\ main_pc.op \in {"wait_pred", "late_wait_pred"}
    /\ LET late == main_pc.op = "late_wait_pred"
       IN  IF WaitPredicate(main_pc.arg)
           THEN /\ state_mutex_' = [state_mutex_ EXCEPT ![main_pc.arg] = {}]
                /\ wait_returned' = wait_returned \cup {main_pc.arg}
                /\ main_pc' = IF late THEN [op |-> "destroyed", arg |-> 0] ELSE MainIdle
           ELSE /\ main_pc' = [op |-> IF late THEN "late_wait_block" ELSE "wait_block",
                               arg |-> main_pc.arg]
                /\ UNCHANGED <<state_mutex_, wait_returned>>
    /\ UNCHANGED <<scheduler, completed_, scheduled, taken_by, executed,
                   mark_completed_calls, wait_blocked>>

\* JobHandle::Wait, cv_.wait releases the lock and blocks, in one step.
WaitBlock ==
    /\ main_pc.op \in {"wait_block", "late_wait_block"}
    /\ state_mutex_' = [state_mutex_ EXCEPT ![main_pc.arg] = {}]
    /\ wait_blocked' = wait_blocked \cup {main_pc.arg}
    /\ main_pc' = [op |-> IF main_pc.op = "wait_block" THEN "wait_waiting"
                          ELSE "late_wait_waiting",
                   arg |-> main_pc.arg]
    /\ UNCHANGED <<scheduler, completed_, scheduled, taken_by, executed,
                   mark_completed_calls, wait_returned>>

\* JobHandle::Wait, a spurious wake-up of the blocked thread.
WaitSpuriousWakeup ==
    /\ main_pc.op \in {"wait_waiting", "late_wait_waiting"}
    /\ main_pc' = [op |-> IF main_pc.op = "wait_waiting" THEN "wait_woken"
                          ELSE "late_wait_woken",
                   arg |-> main_pc.arg]
    /\ UNCHANGED <<scheduler, job_states, scheduled, job_history>>

\* JobHandle::Wait, the woken thread takes the lock again to evaluate the
\* predicate.
WaitReacquire ==
    /\ main_pc.op \in {"wait_woken", "late_wait_woken"}
    /\ state_mutex_[main_pc.arg] = {}
    /\ state_mutex_' = [state_mutex_ EXCEPT ![main_pc.arg] = {0}]
    /\ main_pc' = [op |-> IF main_pc.op = "wait_woken" THEN "wait_pred"
                          ELSE "late_wait_pred",
                   arg |-> main_pc.arg]
    /\ UNCHANGED <<scheduler, completed_, scheduled, job_history>>

\* JobScheduler::~JobScheduler, stop_flag_.store(true): mutex_ is not taken.
DestructorStore ==
    /\ main_pc.op = "idle"
    /\ stop_flag_' = TRUE
    /\ main_pc' = [op |-> "dtor_notify", arg |-> 0]
    /\ UNCHANGED <<job_queue_, mutex_, worker_thread_, worker_pc, job_set, job_states,
                   scheduled, job_history>>

\* JobScheduler::~JobScheduler, cv_.notify_all(): wakes the workers that are
\* blocked now.
DestructorNotify ==
    /\ main_pc.op = "dtor_notify"
    /\ worker_pc' = [w \in 1 .. MaxWorkers |->
                       IF w \in Waiting THEN "woken" ELSE worker_pc[w]]
    /\ main_pc' = [op |-> "dtor_join", arg |-> 1]
    /\ UNCHANGED <<job_queue_, mutex_, stop_flag_, worker_thread_, job_set, job_states,
                   scheduled, job_history>>

\* JobScheduler::~JobScheduler, thread.join() of the next worker; the
\* destructor returns after the last.
DestructorJoin ==
    /\ main_pc.op = "dtor_join"
    /\ IF main_pc.arg \in worker_thread_
       THEN /\ worker_pc[main_pc.arg] = "exited"
            /\ main_pc' = [op |-> "dtor_join", arg |-> main_pc.arg + 1]
       ELSE main_pc' = [op |-> "destroyed", arg |-> 0]
    /\ UNCHANGED <<scheduler, job_states, scheduled, job_history>>

\* JobScheduler::Work, while (!stop_flag_.load())
WorkLoop(w) ==
    /\ worker_pc[w] = "loop"
    /\ worker_pc' = [worker_pc EXCEPT ![w] = IF stop_flag_ THEN "exited" ELSE "lock"]
    /\ UNCHANGED <<job_queue_, mutex_, stop_flag_, worker_thread_, job_set, job_states,
                   main_pc, scheduled, job_history>>

\* JobScheduler::Work, std::unique_lock lock(mutex_); after a wake-up, the
\* wait taking the lock again.
WorkLock(w) ==
    /\ worker_pc[w] \in {"lock", "woken"}
    /\ mutex_ = {}
    /\ mutex_' = {w}
    /\ worker_pc' = [worker_pc EXCEPT ![w] = "pred"]
    /\ UNCHANGED <<job_queue_, stop_flag_, worker_thread_, job_set, job_states,
                   main_pc, scheduled, job_history>>

\* JobScheduler::Work, the predicate of cv_.wait evaluated under the lock.
WorkPredicateStep(w) ==
    /\ worker_pc[w] = "pred"
    /\ worker_pc' = [worker_pc EXCEPT ![w] = IF WorkPredicate THEN "check_stop" ELSE "block"]
    /\ UNCHANGED <<job_queue_, mutex_, stop_flag_, worker_thread_, job_set, job_states,
                   main_pc, scheduled, job_history>>

\* JobScheduler::Work, cv_.wait releases the lock and blocks, in one step.
WorkBlock(w) ==
    /\ worker_pc[w] = "block"
    /\ mutex_' = {}
    /\ worker_pc' = [worker_pc EXCEPT ![w] = "waiting"]
    /\ UNCHANGED <<job_queue_, stop_flag_, worker_thread_, job_set, job_states,
                   main_pc, scheduled, job_history>>

\* JobScheduler::Work, a spurious wake-up of a blocked worker.
WorkSpuriousWakeup(w) ==
    /\ worker_pc[w] = "waiting"
    /\ worker_pc' = [worker_pc EXCEPT ![w] = "woken"]
    /\ UNCHANGED <<job_queue_, mutex_, stop_flag_, worker_thread_, job_set, job_states,
                   main_pc, scheduled, job_history>>

\* JobScheduler::Work, if (stop_flag_.load()) break: the lock is released on
\* leaving the block.
WorkCheckStop(w) ==
    /\ worker_pc[w] = "check_stop"
    /\ IF stop_flag_
       THEN /\ mutex_' = {}
            /\ worker_pc' = [worker_pc EXCEPT ![w] = "exited"]
       ELSE /\ worker_pc' = [worker_pc EXCEPT ![w] = "take"]
            /\ UNCHANGED mutex_
    /\ UNCHANGED <<job_queue_, stop_flag_, worker_thread_, job_set, job_states,
                   main_pc, scheduled, job_history>>

\* JobScheduler::Work, job_set = std::move(job_queue_.front()); job_queue_.pop();
\* the lock is released at the end of the block.  front() of an empty queue is
\* undefined behaviour: the model stops there.
WorkTake(w) ==
    /\ worker_pc[w] = "take"
    /\ job_queue_ # <<>>
    /\ job_set' = [job_set EXCEPT ![w] = Head(job_queue_)]
    /\ job_queue_' = QueueAfterPop(job_queue_)
    /\ taken_by' = [taken_by EXCEPT ![Head(job_queue_)] = @ \cup {w}]
    /\ mutex_' = {}
    /\ worker_pc' = [worker_pc EXCEPT ![w] = "execute"]
    /\ UNCHANGED <<stop_flag_, worker_thread_, job_states, main_pc, scheduled,
                   executed, mark_completed_calls, wait_blocked, wait_returned>>

\* JobScheduler::Work, job_set->job_.Execute(): the job function runs to
\* completion.
WorkExecute(w) ==
    /\ worker_pc[w] = "execute"
    /\ executed' = [executed EXCEPT ![job_set[w]] = @ + 1]
    /\ worker_pc' = [worker_pc EXCEPT ![w] = "mark"]
    /\ UNCHANGED <<job_queue_, mutex_, stop_flag_, worker_thread_, job_set, job_states,
                   main_pc, scheduled, taken_by, mark_completed_calls, wait_blocked,
                   wait_returned>>

\* JobState::MarkCompleted, completed_.store(true) under the lock of the state.
WorkMarkCompleted(w) ==
    /\ worker_pc[w] = "mark"
    /\ state_mutex_[job_set[w]] = {}
    /\ completed_' = [completed_ EXCEPT ![job_set[w]] = TRUE]
    /\ mark_completed_calls' = [mark_completed_calls EXCEPT ![job_set[w]] = @ + 1]
    /\ worker_pc' = [worker_pc EXCEPT ![w] = "notify"]
    /\ UNCHANGED <<job_queue_, mutex_, stop_flag_, worker_thread_, job_set, state_mutex_,
                   main_pc, scheduled, taken_by, executed, wait_blocked, wait_returned>>

\* JobState::MarkCompleted, cv_.notify_all(): wakes the thread blocked in Wait
\* for this job; the worker goes round its loop.
WorkNotify(w) ==
    /\ worker_pc[w] = "notify"
    /\ main_pc' = IF main_pc.arg = job_set[w] /\ main_pc.op = "wait_waiting"
                  THEN [op |-> "wait_woken", arg |-> main_pc.arg]
                  ELSE IF main_pc.arg = job_set[w] /\ main_pc.op = "late_wait_waiting"
                  THEN [op |-> "late_wait_woken", arg |-> main_pc.arg]
                  ELSE main_pc
    /\ job_set' = [job_set EXCEPT ![w] = 0]
    /\ worker_pc' = [worker_pc EXCEPT ![w] = "loop"]
    /\ UNCHANGED <<job_queue_, mutex_, stop_flag_, worker_thread_, job_states,
                   scheduled, job_history>>

\* The steps a worker takes by itself.
Worker(w) ==
    /\ \/ WorkLoop(w)
       \/ WorkLock(w)
       \/ WorkPredicateStep(w)
       \/ WorkBlock(w)
       \/ WorkCheckStop(w)
       \/ WorkTake(w)
       \/ WorkExecute(w)
       \/ WorkMarkCompleted(w)
       \/ WorkNotify(w)
    /\ UNCHANGED <<world, fault, last, history, types, graph, hooks, system, values>>

\* The steps by which the scheduling thread goes on with the call it is in.
MainContinues ==
    /\ \/ WaitPredicateStep
       \/ WaitBlock
       \/ WaitReacquire
       \/ DestructorNotify
       \/ DestructorJoin
    /\ UNCHANGED <<world, fault, last, history, types, graph, hooks, system, values>>

\* The calls the scheduling thread may begin.
MainCalls ==
    /\ \/ \E num_worker_threads \in 0 .. MaxWorkers : JobSchedulerConstruct(num_worker_threads)
       \/ ScheduleJob
       \/ \E job \in 1 .. MaxJobs : WaitLock(job)
       \/ DestructorStore
    /\ UNCHANGED <<world, fault, last, history, types, graph, hooks, system, values>>

\* Wake-ups without a notification.
SpuriousWakeups ==
    /\ \/ WaitSpuriousWakeup
       \/ \E w \in 1 .. MaxWorkers : WorkSpuriousWakeup(w)
    /\ UNCHANGED <<world, fault, last, history, types, graph, hooks, system, values>>

NextJob ==
    \/ MainCalls
    \/ MainContinues
    \/ \E w \in 1 .. MaxWorkers : Worker(w)
    \/ SpuriousWakeups

SpecJob == Init /\ [][NextJob]_vars

\* Fair thread scheduling: a thread that can take a step is not held back for
\* ever, and a thread trying to lock a mutex that is free again and again gets
\* it.  No spurious wake-up is promised, and the scheduling thread need not
\* begin a call.
SpecJobFair ==
    /\ Init
    /\ [][NextJob]_vars
    /\ \A w \in 1 .. MaxWorkers : SF_vars(Worker(w))
    /\ SF_vars(MainContinues)

----------------------------------------------------------------------------
\* Properties

\* The handle is in range and CheckEntityValidity reports it valid.
IsValidHandle(entity) == IdInRange(entity) /\ CheckEntityValidity(entity)

\* C1: once DestroyEntity(e) has returned, CheckEntityValidity(e) is false in
\* every later state, also after a later CreateEntity has reused e's id.
C1_DestroyedNeverValid ==
    \A e \in destroyed : ~CheckEntityValidity(e)

\* C2: every entity CreateEntity returned, fresh or recycled, satisfies
\* CheckEntityValidity from its return until DestroyEntity is called on it.
C2_CreatedStaysValid ==
    \A e \in live : CheckEntityValidity(e)

\* C3: while no assertion has fired, no two CreateEntity calls have returned
\* equal Entity values.
C3_NoEqualEntities ==
    fault = "none" =>
        \A i, j \in DOMAIN issued : i # j => issued[i] # issued[j]

\* C4: for each id, the generations of the entities successive CreateEntity
\* calls returned for that id are strictly increasing.
C4_GenerationsIncrease ==
    \A i, j \in DOMAIN issued :
        (i < j /\ issued[i].id = issued[j].id) => issued[i].gen < issued[j].gen

\* C5: a CreateEntity step returns, when the free list is non-empty, the id
\* of the entity on top of the free list (the one DestroyEntity pushed last
\* among those not yet reused) with that entity's generation plus one, and
\* when the free list is empty the id equal to the number of slots with
\* generation 0; right after a DestroyEntity(e) that returned true it
\* returns e's id with e's generation plus one.
C5_CreateEntityResult ==
    [][Len(issued') = Len(issued) + 1 =>
        LET returned == issued'[Len(issued')]
        IN  /\ free_entities_ # <<>> =>
                 /\ returned.valid
                 /\ returned.id = Back(free_entities_).id
                 /\ returned.gen = Back(free_entities_).gen + 1
            /\ free_entities_ = <<>> =>
                 /\ returned.valid
                 /\ returned.id = Len(entities_)
                 /\ returned.gen = 0
            /\ (last.op = "DestroyEntity" /\ last.result = "true") =>
                 /\ returned.id = last.entity.id
                 /\ returned.gen = last.entity.gen + 1]_vars

\* C5 witness: CreateEntity has just reused an id with generation 1 while
\* two slots are allocated.
C5_Witness ==
    /\ last.op = "CreateEntity"
    /\ last.entity.gen = 1
    /\ Len(entities_) = 2

\* C6: an entity on which CommitEntity was never called is a member of no
\* View(c), whatever was added to it and whatever else was committed.
C6_UncommittedInNoView ==
    \A c \in ComponentIds : \A e \in View(c) : e \in committed

\* C7: right after AddComponent(e, c) returned for an entity e on which
\* CommitEntity had been called, View(c) contains e, for every component id
\* c, also one that no entity was committed with.
C7_AddAfterCommitIsViewed ==
    (last.op = "AddComponent" /\ last.result = "true" /\ last.entity \in committed)
        => last.entity \in View(last.cid)

\* C8: View(c) is empty as long as no CommitEntity was called on an entity
\* owning c; right after CommitEntity(e) returned, View(c) contains e for
\* every component id c that e owns.
C8_ViewAfterCommit ==
    /\ \A c \in ComponentIds : c \notin committedWith => View(c) = {}
    /\ (last.op = "CommitEntity" /\ last.result = "true")
         => \A c \in Owned(last.entity) : last.entity \in View(c)

\* C8 witness: CommitEntity has just returned for an entity that owns every
\* component id and was in no view before the call.
C8_Witness ==
    /\ last.op = "CommitEntity"
    /\ last.result = "true"
    /\ Owned(last.entity) = ComponentIds
    /\ last.views = {}

\* C9: right after DestroyEntity(e) returned, e owns no component and is a
\* member of no View(c).
C9_DestroyedOwnsNothing ==
    (last.op = "DestroyEntity" /\ last.result = "true")
        => /\ Owned(last.entity) = {}
           /\ \A c \in ComponentIds : last.entity \notin View(c)

\* C9 witness: DestroyEntity has just returned for a committed entity that
\* owned every component id and was in the view of each.
C9_Witness ==
    /\ last.op = "DestroyEntity"
    /\ last.result = "true"
    /\ last.comps = ComponentIds
    /\ last.views = ComponentIds

\* C10: DestroyEntity(e) returns success for every entity e that is valid
\* when it is called.
C10_DestroyValidSucceeds ==
    (last.op = "DestroyEntity" /\ last.valid) => last.result = "true"

\* C11: for a valid entity e and component id c, HasComponent(e, c) is true
\* exactly when the last successful call among AddComponent(e, c) and
\* RemoveComponent(e, c) (those DestroyEntity makes included) was
\* AddComponent, and false if there was none.
C11_HasComponentTracksAddRemove ==
    \A e \in Handles : IsValidHandle(e) =>
        \A c \in ComponentIds :
            HasComponentCall(e, c) = {IF <<e, c>> \in added THEN "true" ELSE "false"}

\* C11 witness: RemoveComponent(e, c) has just returned for an entity that
\* still owns another component: HasComponent is false for c, true for the
\* other.
C11_Witness ==
    /\ last.op = "RemoveComponent"
    /\ last.result = "true"
    /\ IsValidHandle(last.entity)
    /\ HasComponentCall(last.entity, last.cid) = {"false"}
    /\ \E c \in ComponentIds : HasComponentCall(last.entity, c) = {"true"}

\* C12 as claimed: CheckEntityValidity(e) returns true if and only if e's id
\* is below the number of slots, the slot is marked valid and the stored
\* entity has e's generation; for an id out of range it returns false.
C12_ValidityIffSlotMatches ==
    last.op = "CheckEntityValidity" =>
        last.result =
            (IF /\ IdInRange(last.entity)
                /\ entity_validity_[last.entity.id + 1]
                /\ entities_[last.entity.id + 1].gen = last.entity.gen
             THEN "true" ELSE "false")

\* C12 as amended: for an id below the number of slots CheckEntityValidity(e)
\* returns true if and only if the slot is marked valid and the stored entity
\* equals e (same id, generation and validity bit); for an id out of range
\* its assert fails and nothing is returned.
C12_ValidityIffSlotEquals ==
    last.op = "CheckEntityValidity" =>
        IF IdInRange(last.entity)
        THEN /\ fault = "none"
             /\ last.result =
                  (IF /\ entity_validity_[last.entity.id + 1]
                      /\ entities_[last.entity.id + 1].id = last.entity.id
                      /\ entities_[last.entity.id + 1].gen = last.entity.gen
                      /\ entities_[last.entity.id + 1].valid = last.entity.valid
                   THEN "true" ELSE "false")
        ELSE /\ fault = "assert"
             /\ last.result = "abort"

\* C12 witness: CheckEntityValidity has just returned false for a handle
\* whose slot is marked valid but stores another generation.
C12_Witness ==
    /\ last.op = "CheckEntityValidity"
    /\ last.result = "false"
    /\ IdInRange(last.entity)
    /\ entity_validity_[last.entity.id + 1]
    /\ entities_[last.entity.id + 1].gen # last.entity.gen

\* The handle is not of a live entity: CreateEntity never returned it, or
\* DestroyEntity has returned true for it.
NotLive(entity) == entity \notin Range(issued) \/ entity \in destroyed

\* C13: CommitEntity, DestroyEntity, AddComponent, RemoveComponent,
\* HasComponent and GetComponent called with an entity that is not live
\* (destroyed, stale, or of an id never allocated, the id equal to the number
\* of slots included) end in the failed assert and leave the World unchanged.
C13_NotLiveIsFatal ==
    [][/\ (/\ last'.op \in {"CommitEntity", "DestroyEntity", "AddComponent",
                            "RemoveComponent"}
           /\ NotLive(last'.entity))
          => (fault' = "assert" /\ world' = world)
       /\ \A e \in Handles : NotLive(e) =>
             \A c \in ComponentIds :
                /\ HasComponentCall(e, c) = {"assert"}
                /\ GetComponentCall(e, c) = {"assert"}]_vars

\* C14: AddComponent(e, c) on an entity that owns c and RemoveComponent(e, c)
\* on an entity that does not own c end in the failed assert; neither the
\* ownership map nor the index changes.
C14_DuplicateAddMissingRemoveAreFatal ==
    [][(\/ (last'.op = "AddComponent" /\ last'.cid \in Owned(last'.entity))
        \/ (last'.op = "RemoveComponent" /\ last'.cid \notin Owned(last'.entity)))
          => /\ fault' = "assert"
             /\ last'.result = "abort"
             /\ entities_to_components_map_' = entities_to_components_map_
             /\ component_to_entities_map_' = component_to_entities_map_]_vars

\* C14 witness: AddComponent was called for an id that the valid entity
\* owned and was indexed under, and the process has aborted.
C14_Witness ==
    /\ last.op = "AddComponent"
    /\ last.valid
    /\ last.cid \in last.comps
    /\ last.cid \in last.views
    /\ fault = "assert"

\* C15: for every valid entity e and component id c, HasComponent(e, c) is
\* true iff GetComponent(e, c) returns a component iff c is in
\* GetHavingComponents(e), and none of the three calls fails, an entity with
\* no component included.
C15_LookupsAgree ==
    \A e \in Handles : IsValidHandle(e) =>
        /\ ~GetHavingComponents(e).throws
        /\ \A c \in ComponentIds :
             /\ HasComponentCall(e, c) \subseteq {"true", "false"}
             /\ GetComponentCall(e, c) \subseteq {"component", "nullptr"}
             /\ HasComponentCall(e, c) = {"true"} <=> GetComponentCall(e, c) = {"component"}
             /\ HasComponentCall(e, c) = {"true"} <=> c \in GetHavingComponents(e).ids

\* C16: a call of AddComponent<T>(e, config) whose Import rejects the
\* configuration returns false and leaves the World as it was (e owns what it
\* owned, every View has the members it had) and fires no assert.
C16_ImportRejectedChangesNothing ==
    [][AddComponent_ComponentType(last'.entity, last'.cid, FALSE)
         => /\ last'.result = "false"
            /\ world' = world
            /\ fault' = fault]_vars

\* C16 witness: AddComponent<T> has just returned false for a valid,
\* committed entity that does not own the id, while the id has an index set
\* (AddComponent would have put the entity into the view).
C16_Witness ==
    /\ last.op = "AddComponent<ComponentType>"
    /\ last.result = "false"
    /\ IsValidHandle(last.entity)
    /\ last.entity \in committed
    /\ last.cid \notin Owned(last.entity)
    /\ last.cid \in DOMAIN component_to_entities_map_
    /\ last.entity \notin View(last.cid)

\* The position of a type in the order of first use.
FirstUse(type) == CHOOSE i \in DOMAIN referenced : referenced[i] = type

\* C17: the type referenced first has id 0, the next one 1, and so on (ids
\* distinct, ordered by first use, never reused); every ID() call of a type
\* returns that id; GetMaxID() is the number of types referenced so far.
C17_IdsInFirstUseOrder ==
    /\ DOMAIN static_id = Range(referenced)
    /\ \A i \in DOMAIN referenced : static_id[referenced[i]] = i - 1
    /\ id_call.op = "ID" =>
         /\ id_call.type \in Range(referenced)
         /\ id_call.value = FirstUse(id_call.type) - 1
    /\ id_call.op = "GetMaxID" => id_call.value = Len(referenced)
    /\ next_id_ = Len(referenced)

\* C17 witness: three types have been referenced and a repeated ID() call of
\* the first of them has returned 0.
C17_Witness ==
    /\ Len(referenced) = 3
    /\ id_call.op = "ID"
    /\ id_call.type = referenced[1]
    /\ id_call.value = 0

\* The objects in the graph, in storage order.
ObjectsInGraph == [i \in DOMAIN entity_objects_ |-> entity_objects_[i].obj]

\* The objects the update order lists, in that order.
ObjectsInUpdateOrder ==
    [k \in DOMAIN update_order_ |-> entity_objects_[update_order_[k] + 1].obj]

\* C18: right after Compile no object whose Destroy() has returned is in the
\* graph or in the update order, whatever entities were created or destroyed
\* in the World since that Destroy().
C18_CompileRemovesDestroyed ==
    last.op = "Compile" =>
        /\ Range(ObjectsInGraph) \cap destroy_returned = {}
        /\ Range(ObjectsInUpdateOrder) \cap destroy_returned = {}

\* C19: right after Compile the update order lists every object remaining in
\* the graph exactly once, and lists the objects in the order in which they
\* were added, also when the pass removed several objects.
C19_UpdateOrderIsInsertionOrder ==
    last.op = "Compile" =>
        /\ \A i \in DOMAIN entity_objects_ :
             Cardinality({k \in DOMAIN update_order_ : update_order_[k] = i - 1}) = 1
        /\ Len(update_order_) = Len(entity_objects_)
        /\ \A k, l \in DOMAIN update_order_ :
             k < l => ObjectsInUpdateOrder[k] < ObjectsInUpdateOrder[l]

\* C19 witness: Compile has just erased two objects that were not next to
\* each other and has kept the one between them.
C19_Witness ==
    /\ last.op = "Compile"
    /\ going_to_remove_indices = <<0, 2>>
    /\ Len(update_order_) = 1

\* C20: Compile returns false if and only if no object remains in the graph
\* after the pruning.
C20_CompileFalseIffEmpty ==
    last.op = "Compile" => (last.result = "false" <=> entity_objects_ = <<>>)

\* C20 witness: Compile has just erased the only object of the graph and
\* returned false.
C20_Witness ==
    /\ last.op = "Compile"
    /\ last.result = "false"
    /\ Len(going_to_remove_indices) = 1

\* The object at position k of the update order.
ObjectAt(k) == entity_objects_[update_order_[k] + 1]

\* C21: when Update has returned, the hooks of the pass went to the objects at
\* positions 1 .. k of the update order, one each and in that order; every
\* hook before the last returned true and an OnStart among them left its
\* object started; Update returned false exactly if the hook at position k
\* returned false, and then no object after position k received a hook; it
\* returned true only after the hook of every position.
C21_FalseHookStopsThePass ==
    (last.op = "Update" /\ update_pos = 0) =>
        /\ Len(hook_log) <= Len(update_order_)
        /\ \A j \in DOMAIN hook_log :
             /\ hook_log[j].obj = ObjectAt(j).obj
             /\ j < Len(hook_log) =>
                  /\ hook_log[j].ret = "true"
                  /\ hook_log[j].hook = "OnStart" => ObjectAt(j).is_started_
        /\ last.result = "false" <=>
             (hook_log # <<>> /\ hook_log[Len(hook_log)].ret = "false")
        /\ last.result = "true" => Len(hook_log) = Len(update_order_)

\* C21 witness: Update has returned false after the hook of the first of two
\* objects in the update order returned false, in a pass after the one in
\* which that object was started.
C21_Witness ==
    /\ last.op = "Update"
    /\ update_pos = 0
    /\ last.result = "false"
    /\ Len(update_order_) = 2
    /\ Len(hook_log) = 1
    /\ hook_log[1].hook = "OnUpdate"
    /\ ObjectAt(1).is_started_

\* C22: OnStart is invoked at most once on every object, whatever it
\* returned.
C22_OnStartAtMostOnce ==
    \A o \in DOMAIN on_start_calls : on_start_calls[o] <= 1

\* C23: a hook that Update invokes on an object is OnUpdate if and only if
\* an OnStart call on that object has returned true before, and no object
\* receives two hooks in one pass.
C23_OnUpdateOnlyAfterOnStartTrue ==
    [][(/\ hook_log' # hook_log
        /\ hook_log' # <<>>
        /\ hook_log'[Len(hook_log')].ret = "running")
         => LET invoked == hook_log'[Len(hook_log')]
            IN  /\ invoked.hook = "OnUpdate" <=> invoked.obj \in on_start_true
                /\ \A j \in 1 .. (Len(hook_log') - 1) : hook_log'[j].obj # invoked.obj]_vars

\* C23 witness: in the second pass OnUpdate has been invoked on the two
\* objects of the update order, both started in the first pass.
C23_Witness ==
    /\ passes = 2
    /\ Len(hook_log) = 2
    /\ hook_log[1].hook = "OnUpdate"
    /\ hook_log[2].hook = "OnUpdate"
    /\ {hook_log[1].obj, hook_log[2].obj} \subseteq on_start_true

\* C26: a call of Destroy() on an object whose entity is valid runs OnDestroy
\* before the World is touched (the call is recorded with the entity valid
\* and owning what it owned) and destroys the entity before it returns:
\* right after the call the object is not valid and its entity is in no View.
C26_DestroyTearsDownAtOnce ==
    [][\A i \in DOMAIN entity_objects_ :
          (EntityObjectIsValid(entity_objects_[i]) /\ EntityObjectDestroy(i))
            => LET entity == entity_objects_[i].entity
               IN  /\ last'.valid
                   /\ last'.comps = Owned(entity)
                   /\ last'.result = "true"
                   /\ ~(entity_validity_'[entity.id + 1] /\ entities_'[entity.id + 1] = entity)
                   /\ \A c \in DOMAIN component_to_entities_map_' :
                        entity \notin component_to_entities_map_'[c]]_vars

\* C27: OnCreate is invoked only by SpawnEntityObject, once, on the object it
\* adds to the graph, which was not in the graph before and has received no
\* OnStart; when SpawnEntityObject returns the entity of the new object is
\* valid and not committed.
C27_SpawnedIsCreatedOnceAndValid ==
    [][/\ on_create_calls' # on_create_calls
             => Len(entity_objects_') = Len(entity_objects_) + 1
       /\ Len(entity_objects_') = Len(entity_objects_) + 1
             => LET spawned == entity_objects_'[Len(entity_objects_')]
                IN  /\ on_create_calls[spawned.obj] = 0
                    /\ on_create_calls'[spawned.obj] = 1
                    /\ on_start_calls'[spawned.obj] = 0
                    /\ spawned.obj \notin Range(ObjectsInGraph)
                    /\ ~spawned.is_started_
                    /\ entity_validity_'[spawned.entity.id + 1]
                    /\ entities_'[spawned.entity.id + 1] = spawned.entity
                    /\ spawned.entity \notin committed']_vars

C25_SweepUpdatesEveryViewedPairOnce ==
    [][frame.pc = "sweep" =>
          /\ fault' = "none"
          /\ frame'.result = "true"
          /\ \A c \in 0 .. (next_id_ - 1) : \A e \in View(c) :
                Cardinality({i \in DOMAIN sweep_log' : sweep_log'[i] = <<c, e>>}) = 1
          /\ \A i \in DOMAIN sweep_log' :
                /\ sweep_log'[i][1] \in 0 .. (next_id_ - 1)
                /\ sweep_log'[i][2] \in View(sweep_log'[i][1])
          /\ \A i, j \in DOMAIN sweep_log' : i < j => sweep_log'[i][1] <= sweep_log'[j][1]
          /\ Len(hook_log) = Len(update_order_)
          /\ \A j \in DOMAIN hook_log : hook_log[j].ret = "true"]_vars

\* C25 witness: the sweep has just updated two components of each of two
\* entities.
C25_Witness ==
    /\ frame.pc = "returned"
    /\ frame.result = "true"
    /\ last.op = "Update"
    /\ Len(sweep_log) = 4
    /\ sweep_log[1][1] = 0
    /\ sweep_log[4][1] = 1
    /\ sweep_log[1][2] # sweep_log[2][2]

\* C28: a call of System::Update made when Destroy() has returned for every
\* object in the graph returns false.
C28_AllDestroyedStopsTheLoop ==
    [][(/\ frame.pc \in {"idle", "returned"}
        /\ frame' # frame
        /\ Range(ObjectsInGraph) \subseteq destroy_returned)
          => frame'.result = "false"]_vars

\* The bit positions of bits_ that a field of the given mask and shift occupies.
FieldBits(mask, shift) == ShiftLeft(mask, shift)

\* C29: an entity made by Entity(id, gen) reports itself valid, GetGen() returns
\* gen, GetID() returns id when id is below 2^31, and the validity, id and
\* generation fields occupy pairwise disjoint bits; the entity made by Entity()
\* reports itself invalid.
C29_EntityUnpacksToWhatItWasBuiltFrom ==
    unpacked.called =>
        /\ entity1.ctor = "Entity(id, gen)" =>
              /\ unpacked.valid
              /\ 31 \notin entity1.id => unpacked.id = entity1.id
              /\ unpacked.gen = entity1.gen
        /\ entity1.ctor = "Entity()" => ~unpacked.valid
        /\ FieldBits(VALID_MASK, VALID_SHIFT) \cap FieldBits(ID_MASK, ID_SHIFT) = {}
        /\ FieldBits(VALID_MASK, VALID_SHIFT) \cap FieldBits(GEN_MASK, GEN_SHIFT) = {}
        /\ FieldBits(ID_MASK, ID_SHIFT) \cap FieldBits(GEN_MASK, GEN_SHIFT) = {}

\* C29 witness: Entity(2^30 + 1, gen) with gen at least 2^31 has been unpacked.
C29_Witness ==
    /\ unpacked.called
    /\ entity1.ctor = "Entity(id, gen)"
    /\ entity1.id = {0, 30}
    /\ 31 \in entity1.gen
    /\ unpacked.id = {0, 30}
    /\ unpacked.gen = entity1.gen

\* C30: entity1 == entity2 exactly if their validity, id and generation are all
\* the same; entity1 < entity2 exactly if entity1's generation is the smaller,
\* or the generations are the same and entity1's id is the smaller; and of
\* entity1 < entity2, entity2 < entity1, entity1 == entity2 exactly one holds
\* when both are valid.
C30_EntityEqualityAndOrder ==
    compared.called =>
        LET valid1 == IsValid(entity1.bits_)
            valid2 == IsValid(entity2.bits_)
            id1 == GetID(entity1.bits_)
            id2 == GetID(entity2.bits_)
            gen1 == GetGen(entity1.bits_)
            gen2 == GetGen(entity2.bits_)
        IN  /\ compared.eq <=> (valid1 = valid2 /\ id1 = id2 /\ gen1 = gen2)
            /\ compared.ne <=> ~compared.eq
            /\ compared.lt <=> (UintLess(gen1, gen2) \/ (gen1 = gen2 /\ UintLess(id1, id2)))
            /\ (valid1 /\ valid2) =>
                  /\ compared.lt \/ compared.gt \/ compared.eq
                  /\ ~(compared.lt /\ compared.gt)
                  /\ ~(compared.lt /\ compared.eq)
                  /\ ~(compared.gt /\ compared.eq)

\* C30 witness: two valid entities have been compared, entity1 of the smaller
\* generation and the larger id, and entity1 < entity2 held.
C30_Witness ==
    /\ compared.called
    /\ entity1.ctor = "Entity(id, gen)"
    /\ entity2.ctor = "Entity(id, gen)"
    /\ UintLess(entity1.gen, entity2.gen)
    /\ UintLess(entity2.id, entity1.id)
    /\ 31 \notin entity1.id
    /\ compared.lt
    /\ ~compared.gt
    /\ ~compared.eq

\* C31: a job for which Wait() has returned was taken by a worker and its
\* function has run to completion: it is not in the queue and no worker is
\* executing it.
C31_WaitReturnsOnlyAfterTheJobRan ==
    \A job \in wait_returned :
        /\ executed[job] >= 1
        /\ taken_by[job] # {}
        /\ job \notin Range(job_queue_)
        /\ \A w \in worker_thread_ : ~(job_set[w] = job /\ worker_pc[w] = "execute")

\* C31 witness: Wait() has returned for a job after having blocked for it.
C31_Witness ==
    /\ wait_returned # {}
    /\ wait_returned \subseteq wait_blocked
    /\ main_pc.op = "idle"

\* C32: once the destructor has set the stop flag, it returns: every worker
\* leaves Work and is joined.
C32_DestructorTerminates ==
    (main_pc.op = "dtor_notify") ~> (main_pc.op = "destroyed")

\* C33: with at least one worker, a scheduled job is eventually marked completed
\* unless the scheduler is destroyed first, and a Wait() on its handle
\* eventually returns.
C33_ScheduledJobIsEventuallyCompleted ==
    \A job \in 1 .. MaxJobs :
        /\ (worker_thread_ # {} /\ scheduled >= job) ~> (completed_[job] \/ stop_flag_)
        /\ (worker_thread_ # {} /\ main_pc = [op |-> "wait_pred", arg |-> job])
              ~> (job \in wait_returned)

\* C33 witness: Wait() blocked for each of two jobs and has returned for both.
C33_Witness ==
    /\ wait_blocked = {1, 2}
    /\ wait_returned = {1, 2}
    /\ ~stop_flag_

\* C34: every job is taken from the queue by at most one worker, its function
\* runs at most once and its state is marked completed at most once; a
\* completed job was run and marked exactly once.
C34_EachJobRunsOnce ==
    \A job \in 1 .. MaxJobs :
        /\ Cardinality(taken_by[job]) <= 1
        /\ Cardinality({w \in worker_thread_ : job_set[w] = job}) <= 1
        /\ executed[job] <= 1
        /\ mark_completed_calls[job] <= 1
        /\ completed_[job] => (executed[job] = 1 /\ mark_completed_calls[job] = 1)

\* C34 witness: two workers have each run and completed one of two jobs.
C34_Witness ==
    /\ completed_[1]
    /\ completed_[2]
    /\ taken_by[1] # taken_by[2]
    /\ Cardinality(worker_thread_) = 2

\* The hook invoked by a step: the last entry of the hook log, when the step
\* has added it.
HookInvoked == hook_log' # hook_log /\ hook_log' # <<>>
                  /\ hook_log'[Len(hook_log')].ret = "running"

\* C35: Compile leaves in the graph, and puts in the update order, every
\* object whose Destroy() has not returned and whose entity has not been
\* destroyed.
C35_CompileKeepsLiveObjects ==
    [][(last'.op = "Compile" /\ pass' = pass) =>
        \A i \in DOMAIN entity_objects_ :
            (/\ entity_objects_[i].obj \notin destroy_returned
             /\ entity_objects_[i].entity \notin destroyed)
              => /\ \E k \in DOMAIN entity_objects_' :
                       entity_objects_'[k].obj = entity_objects_[i].obj
                 /\ \E k \in DOMAIN update_order_' :
                       entity_objects_'[update_order_'[k] + 1].obj = entity_objects_[i].obj]_vars

\* C36: no step invokes OnStart or OnUpdate on an object whose Destroy() has
\* returned.
C36_NoHookAfterDestroy ==
    [][HookInvoked => hook_log'[Len(hook_log')].obj \notin destroy_returned]_vars

\* C37: no step invokes a hook on an object that was added while Update was
\* running and has not been through a Compile since, and OnUpdate is invoked
\* only on an object on which OnStart was invoked before.
C37_SpawnedInPassWaitsForCompile ==
    [][HookInvoked =>
          LET invoked == hook_log'[Len(hook_log')]
          IN  /\ invoked.obj \notin spawned_in_pass
              /\ invoked.hook = "OnUpdate" => on_start_calls[invoked.obj] >= 1]_vars

\* C37 witness: an Update pass over two objects has returned true, and an
\* object added while it was running is in the graph without having received
\* a hook.
C37_Witness ==
    /\ last.op = "Update"
    /\ last.result = "true"
    /\ update_pos = 0
    /\ Len(hook_log) = 2
    /\ \E i \in DOMAIN entity_objects_ :
          /\ entity_objects_[i].obj \in spawned_in_pass
          /\ on_start_calls[entity_objects_[i].obj] = 0
          /\ \A j \in DOMAIN hook_log : hook_log[j].obj # entity_objects_[i].obj

\* C38: every entity in the View of a component id is valid and owns a
\* component of that id, so that GetComponent finds it.
C38_IndexAgreesWithOwnership ==
    \A c \in DOMAIN component_to_entities_map_ :
        \A e \in View(c) :
            /\ IdInRange(e)
            /\ CheckEntityValidity(e)
            /\ c \in Owned(e)
            /\ GetComponent(e, c) = "component"

\* C38 witness: an entity that is in two Views owns both components.
C38_Witness ==
    \E e \in Range(issued) :
        /\ \A c \in ComponentIds : e \in View(c)
        /\ Owned(e) = ComponentIds
        /\ CheckEntityValidity(e)

\* The ids of the entities on the free list.
FreeIds == {free_entities_[i].id : i \in DOMAIN free_entities_}

\* C39: entities_ and entity_validity_ have the same length, an id is on the
\* free list exactly if its validity flag is false, and the ids on the free
\* list are all different.
C39_FreeListAgreesWithValidity ==
    /\ Len(entities_) = Len(entity_validity_)
    /\ \A id \in 0 .. (Len(entities_) - 1) : id \in FreeIds <=> ~entity_validity_[id + 1]
    /\ FreeIds \subseteq 0 .. (Len(entities_) - 1)
    /\ \A i, j \in DOMAIN free_entities_ :
          free_entities_[i].id = free_entities_[j].id => i = j

\* C39 witness: one id is on the free list and another id has been reused.
C39_Witness ==
    /\ Len(free_entities_) = 1
    /\ Len(entities_) = 2
    /\ \E e \in Range(issued) : e.gen = 1 /\ e.id \notin FreeIds

\* The entities the World has ever been given or has stored.
KnownEntities ==
    Range(issued) \cup DOMAIN entities_to_components_map_
        \cup UNION {View(c) : c \in DOMAIN component_to_entities_map_}

\* C40: a call of CommitEntity, AddComponent, RemoveComponent or DestroyEntity
\* on an entity leaves, for every other entity, the components it owns, the
\* Views it is in and its validity as they were.
C40_OtherEntitiesUntouched ==
    [][last'.op \in {"CommitEntity", "AddComponent", "RemoveComponent", "DestroyEntity"} =>
          \A e2 \in KnownEntities \ {last'.entity} :
              /\ HasEntry(e2)' = HasEntry(e2)
              /\ Owned(e2)' = Owned(e2)
              /\ \A c \in ComponentIds \cup DOMAIN component_to_entities_map_ :
                    (e2 \in View(c))' = (e2 \in View(c))
              /\ (IdInRange(e2) /\ CheckEntityValidity(e2))'
                    = (IdInRange(e2) /\ CheckEntityValidity(e2))]_vars

\* C40 witness: an entity has been destroyed while another entity was valid,
\* owned a component and was in its View.
C40_Witness ==
    /\ last.op = "DestroyEntity"
    /\ last.result = "true"
    /\ last.comps # {}
    /\ \E e2 \in Range(issued) \ {last.entity} :
          /\ CheckEntityValidity(e2)
          /\ Owned(e2) # {}
          /\ \E c \in Owned(e2) : e2 \in View(c) /\ c \in last.comps

====
